---- MODULE Spec2Model ----
(***************************************************************************)
(* Price resolution and fetch-resilience engine of redstone-btc-feusd:     *)
(*   src/src/prices/hl_spot_prices.py   order-book mid resolver            *)
(*   src/src/prices/hyper_evm_prices.py DEX pool-price resolver            *)
(*   src/src/compute/stable_fx.py       tiered fallback orchestrator       *)
(*   src/src/prices/redstone_prices.py  multi-endpoint fetcher             *)
(* Upstream responses (venue metadata, order books, pool lists, HTTP       *)
(* replies) are inputs chosen by the environment at the moment of the call.*)
(***************************************************************************)
EXTENDS Integers, Sequences, FiniteSets, TLC

\* ------------------------------------------------------------------ bounds
MaxUniverse == 2
MaxLevels == 2
MaxFxUniverse == 1
MaxFxLevels == 1
MaxPools == 2
MaxFxPools == 1
MaxQuotes == 2
MaxSymbols == 2
MaxItems == 2
MaxSymItems == 1
MaxRetries == 2
MaxEndpoints == 2

\* ------------------------------------------------------- decimal numbers
\* A Python float is modelled as an exact fraction n/d in lowest terms, d > 0.
Gcd(a, b) ==
    LET gcd[x \in 0..(a + b), y \in 0..(a + b)] == IF y = 0 THEN x ELSE gcd[y, x % y]
    IN  gcd[a, b]

Abs(x) == IF x < 0 THEN -x ELSE x

Rat(n, d) ==
    LET g == Gcd(Abs(n), Abs(d))
        s == IF d < 0 THEN -1 ELSE 1
    IN  [n |-> (s * n) \div g, d |-> (s * d) \div g]

RatInt(k) == [n |-> k, d |-> 1]
RatAdd(x, y) == Rat(x.n * y.d + y.n * x.d, x.d * y.d)
RatMul(x, y) == Rat(x.n * y.n, x.d * y.d)
RatDivInt(x, k) == Rat(x.n, x.d * k)
RatInv(x) == Rat(x.d, x.n)
RatIsZero(x) == x.n = 0
RatPositive(x) == x.n > 0
RatLess(x, y) == x.n * y.d < y.n * x.d

\* ------------------------------------------------------- raw JSON values
\* What a JSON field can hold when the code reads it: nothing (absent or
\* null), the empty string, a string that is no number, a string that spells
\* a number, or a JSON number.
NoneV == [t |-> "none", v |-> RatInt(0)]
EmptyStr == [t |-> "empty", v |-> RatInt(0)]
BadStr == [t |-> "bad", v |-> RatInt(0)]
NumStr(k) == [t |-> "numstr", v |-> RatInt(k)]
Num(k) == [t |-> "num", v |-> RatInt(k)]

\* Python truthiness of such a value (x or y, if x).
Truthy(x) ==
    \/ x.t \in {"bad", "numstr"}
    \/ x.t = "num" /\ ~RatIsZero(x.v)

\* ------------------------------------------------------ call outcomes
\* A call either returns a value or raises; err names the failure.
Ok(v) == [ok |-> TRUE, val |-> v, err |-> "none"]
Raise(e) == [ok |-> FALSE, val |-> RatInt(0), err |-> e]
NoOutcome == [ok |-> FALSE, val |-> RatInt(0), err |-> "pending"]

\* float(x): a number for a numeric string or a JSON number, ValueError for any
\* other string, TypeError for None.
Float(x) ==
    IF x.t \in {"numstr", "num"} THEN Ok(x.v)
    ELSE IF x.t = "none" THEN Raise("TypeError")
    ELSE Raise("ValueError")

\* ------------------------------------------------------ sequences helper
SeqsUpTo(S, n) == UNION {[1..k -> S] : k \in 0..n}

\* ==================================================== hl_spot_prices.py
SPOT_ASSET_OFFSET == 10000

NoIndex == -1          \* Python None where an index is expected

TokenNames == {"FEUSD", "USDT0", "USDHL"}

\* spotMeta["tokens"]: a list of {name, index}; either field may be missing.
NoName == "?"
TokenLists ==
    { <<[name |-> "FEUSD", index |-> 0], [name |-> "USDT0", index |-> 1]>>,
      <<[name |-> "FEUSD", index |-> 0], [name |-> "USDT0", index |-> 1],
        [name |-> "USDHL", index |-> 0]>>,
      <<[name |-> "FEUSD", index |-> 1], [name |-> "USDT0", index |-> 0],
        [name |-> "FEUSD", index |-> 0], [name |-> "USDT0", index |-> 1]>>,
      <<[name |-> "FEUSD", index |-> 0], [name |-> "USDT0", index |-> NoIndex]>>,
      <<[name |-> NoName, index |-> 0], [name |-> "USDT0", index |-> 1]>>,
      <<>> }

\* spotMeta["universe"]: a list of {baseTokenIndex, quoteTokenIndex, index}.
UniverseEntries ==
    [baseTokenIndex : {0, 1}, quoteTokenIndex : {0, 1}, index : {NoIndex, 5, 7}]

SpotMetas(n) == [tokens : TokenLists, universe : SeqsUpTo(UniverseEntries, n)]

NoMeta == [tokens |-> <<>>, universe |-> <<>>]

\* _build_name_to_token_index: later entries overwrite earlier ones; entries
\* lacking a name or an index are skipped. The result is the set of names and
\* a function on them.
_build_name_to_token_index(tokens) ==
    LET m[n \in 0..Len(tokens)] ==
            IF n = 0 THEN [x \in {} |-> 0]
            ELSE LET t == tokens[n]
                     prior == m[n - 1]
                 IN  IF t.name # NoName /\ t.index # NoIndex
                     THEN [x \in (DOMAIN prior) \cup {t.name} |->
                              IF x = t.name THEN t.index ELSE prior[x]]
                     ELSE prior
    IN  m[Len(tokens)]

ScanUniverseEitherOrder(universe, base_idx, quote_idx) ==
    LET scan[i \in 1..(Len(universe) + 1)] ==
            IF i > Len(universe) THEN NoIndex
            ELSE LET u == universe[i]
                 IN  IF \/ u.baseTokenIndex = base_idx /\ u.quoteTokenIndex = quote_idx
                        \/ u.baseTokenIndex = quote_idx /\ u.quoteTokenIndex = base_idx
                     THEN u.index
                     ELSE scan[i + 1]
    IN  scan[1]

\* The scan of the universe in find_spot_pair_index: the first entry whose
\* (baseTokenIndex, quoteTokenIndex) is (base_idx, quote_idx) decides; an
\* entry without "index" ends the scan (break) and the pair is not found.
ScanUniverse(universe, base_idx, quote_idx) ==
    LET scan[i \in 1..(Len(universe) + 1)] ==
            IF i > Len(universe) THEN NoIndex
            ELSE LET u == universe[i]
                 IN  IF u.baseTokenIndex = base_idx /\ u.quoteTokenIndex = quote_idx
                     THEN u.index
                     ELSE scan[i + 1]
    IN  scan[1]

\* find_spot_pair_index on the metadata sm returned by info.spot_meta().
NotInBaseOnly(idx, b, q) == b \notin DOMAIN idx

\* if base not in name_to_idx or quote not in name_to_idx (line 88)
NotIn(idx, b, q) == b \notin DOMAIN idx \/ q \notin DOMAIN idx

\* find_spot_pair_index once info.spot_meta() has answered; name_to_idx[...]
\* raises KeyError on a name that is not a key.
find_spot_pair_index(meta, b, q) ==
    LET name_to_idx == _build_name_to_token_index(meta.tokens)
    IN  IF NotIn(name_to_idx, b, q)
        THEN Raise("UnknownToken")
        ELSE IF b \notin DOMAIN name_to_idx \/ q \notin DOMAIN name_to_idx
        THEN Raise("KeyError")
        ELSE LET found == ScanUniverse(meta.universe, name_to_idx[b], name_to_idx[q])
             IN  IF found = NoIndex THEN Raise("PairNotFound")
                 ELSE Ok(RatInt(found))

\* An order-book level {"px": ...}.
PxValues == {BadStr, NumStr(0), NumStr(1), NumStr(3)}
LevelSeqs(n) == SeqsUpTo([px : PxValues], n)

\* The l2Book response: the code reads "levels" or "bids" for the bid side
\* and "levels_ask" or "asks" for the ask side.
Book(lv, bd, la, ak) == [levels |-> lv, bids |-> bd, levels_ask |-> la, asks |-> ak]
Books(n) ==
    {Book(b, <<>>, a, <<>>) : b \in LevelSeqs(n), a \in LevelSeqs(n)}
    \cup {Book(<<>>, b, <<>>, a) : b \in LevelSeqs(n), a \in LevelSeqs(n)}
    \cup {Book(b, a, a, b) : b \in LevelSeqs(n), a \in LevelSeqs(n)}

NoBook == Book(<<>>, <<>>, <<>>, <<>>)

\* x or y on lists
OrSeq(x, y) == IF x # <<>> THEN x ELSE y

BookBids(book) == OrSeq(book.levels, book.bids)
BookAsks(book) == OrSeq(book.levels_ask, book.asks)

MidOfBidOnly(best_bid, best_ask) == best_bid

\* (best_bid + best_ask) / 2.0
MidOf(best_bid, best_ask) == RatDivInt(RatAdd(best_bid, best_ask), 2)

NotBidsAndNotAsks(bids, asks) == bids = <<>> /\ asks = <<>>

\* if not bids or not asks (line 121)
NotBidsOrNotAsks(bids, asks) == bids = <<>> \/ asks = <<>>

\* get_spot_mid after the book ob came back (lines 118-127); bids[0] and
\* asks[0] raise IndexError on an empty list.
BookMid(book) ==
    LET bids == BookBids(book)
        asks == BookAsks(book)
    IN  IF NotBidsOrNotAsks(bids, asks) THEN Raise("NoLiquidity")
        ELSE IF bids = <<>> \/ asks = <<>> THEN Raise("IndexError")
        ELSE LET best_bid == Float(bids[1].px)
                 best_ask == Float(asks[1].px)
             IN  IF ~best_bid.ok THEN best_bid
                 ELSE IF ~best_ask.ok THEN best_ask
                 ELSE Ok(MidOf(best_bid.val, best_ask.val))

\* A network call of the venue SDK either returns or raises.
MetaResps(n) == [net : {TRUE}, sm : SpotMetas(n)] \cup {[net |-> FALSE, sm |-> NoMeta]}
BookResps(n) == [net : {TRUE}, ob : Books(n)] \cup {[net |-> FALSE, ob |-> NoBook]}

\* get_spot_mid as one call, given what info.spot_meta() and info.post()
\* answer: the pair lookup, then the book of asset 10000 + pair_index.
get_spot_mid(metaResp, bookResp, b, q) ==
    IF ~metaResp.net THEN Raise("NetworkError")
    ELSE LET found == find_spot_pair_index(metaResp.sm, b, q)
         IN  IF ~found.ok THEN found
             ELSE IF ~bookResp.net THEN Raise("NetworkError")
             ELSE BookMid(bookResp.ob)

\* =================================================== hyper_evm_prices.py
\* str.lower() on the token addresses of the model.
Lower(a) ==
    CASE a = "0xAb" -> "0xab"
      [] a = "0xAB" -> "0xab"
      [] a = "0xCd" -> "0xcd"
      [] a = "0xCD" -> "0xcd"
      [] OTHER -> a

\* A pool of the DexScreener response: baseToken.address and
\* quoteToken.address ("" when missing), priceNative, price, liquidity.usd.
PoolAddrs ==
    { <<"0xAB", "0xcd">>, <<"0xCD", "0xab">>, <<"0xab", "0xee">>,
      <<"", "0xcd">>, <<"0xab", "0xAB">> }

PoolPrices ==
    { <<NoneV, NoneV>>, <<NoneV, BadStr>>, <<NumStr(0), NoneV>>,
      <<NumStr(2), NumStr(4)>>, <<Num(0), NumStr(4)>> }

PoolLiqs == {NoneV, Num(10), Num(20)}

Pools ==
    { [base |-> a[1], quote |-> a[2], priceNative |-> pr[1], price |-> pr[2], liq |-> l] :
        a \in PoolAddrs, pr \in PoolPrices, l \in PoolLiqs }

\* _load_pairs_for_token either returns the list of pools or raises.
PairsResps(n) ==
    [net : {TRUE}, pairs : SeqsUpTo(Pools, n)] \cup {[net |-> FALSE, pairs |-> <<>>]}

\* p.get("priceNative") or p.get("price")
PriceStr(p) == IF Truthy(p.priceNative) THEN p.priceNative ELSE p.price

\* float(liquidity.usd), 0.0 when that raises
LiqUsd(p) == IF Float(p.liq).ok THEN Float(p.liq).val ELSE RatInt(0)

InvertedNoReciprocal(v) == v

\* The inverted-orientation branch on a price v: 1.0 / v unless v is 0.0.
Inverted(v) == RatInv(v)

ExactOrientationNever(b, q, tA, tB) == FALSE

\* base == tokenA.lower() and quote == tB (line 54)
ExactOrientation(b, q, tA, tB) == b = Lower(tA) /\ q = Lower(tB)

\* base == tB and quote == tokenA.lower() (line 61)
InvertedOrientation(b, q, tA, tB) == b = Lower(tB) /\ q = Lower(tA)

\* The loop over the pools and what follows it (lines 41-80): best[i] is
\* (best_liq, best_price) before pool i, scan[i] the outcome from pool i on.
ScanPools(pairs, tA, tB, best_liq, best_price) ==
    LET Skipped(p) == Lower(p.base) = "" \/ Lower(p.quote) = ""
        best[i \in 1..(Len(pairs) + 1)] ==
            IF i = 1 THEN [liq |-> best_liq, price |-> best_price]
            ELSE LET p == pairs[i - 1]
                 IN  IF ~Skipped(p) /\ RatLess(best[i - 1].liq, LiqUsd(p)) /\ Truthy(PriceStr(p))
                     THEN [liq |-> LiqUsd(p), price |-> PriceStr(p)]
                     ELSE best[i - 1]
        scan[i \in 1..(Len(pairs) + 1)] ==
            IF i > Len(pairs)
            THEN IF best[i].price # NoneV /\ Float(best[i].price).ok
                 THEN Ok(Float(best[i].price).val)
                 ELSE Raise("NoPoolFound")
            ELSE LET p == pairs[i]
                     b == Lower(p.base)
                     q == Lower(p.quote)
                     price_str == PriceStr(p)
                     parsed == Float(price_str)
                 IN  IF Skipped(p)
                     THEN scan[i + 1]
                     ELSE IF ExactOrientation(b, q, tA, tB) /\ Truthy(price_str) /\ parsed.ok
                     THEN Ok(parsed.val)
                     ELSE IF /\ InvertedOrientation(b, q, tA, tB) /\ Truthy(price_str)
                             /\ parsed.ok /\ ~RatIsZero(parsed.val)
                     THEN Ok(Inverted(parsed.val))
                     ELSE scan[i + 1]
    IN  scan[1]

get_pair_mid_from_dexscreener(resp, tA, tB) ==
    IF ~resp.net THEN Raise("NetworkError")
    ELSE ScanPools(resp.pairs, tA, tB, RatInt(-1), NoneV)

\* Every outcome one get_spot_mid(b, q) call can have, over the metadata of
\* at most n pairs and the books of at most m levels a side. Once the pair
\* lookup succeeded the outcome depends on the book alone.
SpotMidOutcomes(b, q, n, m) ==
    LET found == {mr \in MetaResps(n) : mr.net /\ find_spot_pair_index(mr.sm, b, q).ok}
        lost == MetaResps(n) \ found
    IN  {get_spot_mid(mr, [net |-> FALSE, ob |-> NoBook], b, q) : mr \in lost}
        \cup (IF found = {} THEN {}
              ELSE {get_spot_mid(CHOOSE mr \in found : TRUE, br, b, q) : br \in BookResps(m)})

\* ========================================================== stable_fx.py
ExceptRuntimeError(r) == r.err \in {"UnknownToken", "PairNotFound", "NoLiquidity", "NoPoolFound"}

\* except Exception: every failure of the call in the try block is caught.
ExceptException(r) == TRUE

SpotTierGoesOn(r) == FALSE

\* The spot tier after get_spot_mid gave r: return it, or go on.
SpotTierReturns(r) == r.ok

ForHasNextButLast(xs, i) == i < Len(xs)

ForHasNextNever(xs, i) == FALSE

\* for x in xs: the loop has an element at position i.
ForHasNext(xs, i) == i <= Len(xs)

\* The peg of tier C.
Peg == RatInt(1)

ScaleNot(v, rate) == v

\* stable_usdc_rate * usdc_usd_rate (line 108)
Scale(v, rate) == RatMul(v, rate)

\* usdc_usd_rate: the rates the caller may pass
ReferenceRates == {Rat(1, 2), RatInt(1), RatInt(3)}

\* evm_addresses: None, or a dict from symbol to address.
NoAddresses == [none |-> TRUE, map |-> <<>>]
Addresses(f) == [none |-> FALSE, map |-> f]

\* if evm_addresses and symbol in evm_addresses and evm_usd_reference in evm_addresses
DexTierApplies(addrs, sym, ref) ==
    /\ ~addrs.none
    /\ DOMAIN addrs.map # {}
    /\ sym \in DOMAIN addrs.map
    /\ ref \in DOMAIN addrs.map

\* The default of preferred_quotes is ("FEUSD"), a string: the loop runs
\* over its characters.
DefaultPreferredQuotes == <<"F", "E", "U", "S", "D">>

\* The symbols and addresses the resolver is called with, and per call the
\* outcomes get_spot_mid and get_pair_mid_from_dexscreener can have.
SymbolNames == {"FEUSD"}
QuoteNames == {"USDT0", "USDHL"} \cup {DefaultPreferredQuotes[i] : i \in 1..Len(DefaultPreferredQuotes)}
AddressNames == {"0xAb", "0xCd"}

SpotOutcomeTable ==
    [b \in SymbolNames, q \in QuoteNames |-> SpotMidOutcomes(b, q, MaxFxUniverse, MaxFxLevels)]

DexOutcomeTable ==
    [a \in AddressNames, b \in AddressNames |->
        {get_pair_mid_from_dexscreener(resp, a, b) : resp \in PairsResps(MaxFxPools)}]

\* ===================================================== redstone_prices.py
REDSTONE_PRICE_ENDPOINTS == <<"facade", "gateway-1", "gateway-2">>

\* str.strip() and str.upper() on the strings that occur here.
Strip(s) ==
    CASE s = " usdc " -> "usdc"
      [] s = "  " -> ""
      [] OTHER -> s

Upper(s) ==
    CASE s = "usdc" -> "USDC"
      [] s = "None" -> "NONE"
      [] s = "btc" -> "BTC"
      [] OTHER -> s

\* A price object of a payload: {symbol, value, timestamp, provider}; any of
\* the keys may be absent.
NoSymbol == "?"
NullSymbol == "null"       \* the key is there, its value is JSON null
NoProvider == "?"
NoTs == -1
MissingV == [t |-> "missing", v |-> RatInt(0)]

PriceObjects ==
    { [symbol |-> "BTC", value |-> Num(7), timestamp |-> 123, provider |-> "x"],
      [symbol |-> "usdc", value |-> NumStr(1), timestamp |-> NoTs, provider |-> NoProvider],
      [symbol |-> "BTC", value |-> BadStr, timestamp |-> 123, provider |-> "x"],
      [symbol |-> NoSymbol, value |-> Num(7), timestamp |-> 123, provider |-> "x"],
      [symbol |-> NullSymbol, value |-> Num(7), timestamp |-> 123, provider |-> "x"],
      [symbol |-> "USDC", value |-> MissingV, timestamp |-> NoTs, provider |-> NoProvider] }

\* What _http_get_json hands back as data: a JSON list of objects, a JSON
\* mapping keyed by symbol (the key is held in the symbol field), either of
\* them once more encoded as a JSON string, any other text, any other JSON.
KeysOk(xs) ==
    /\ \A i \in 1..Len(xs) : xs[i].symbol \notin {NoSymbol, NullSymbol}
    /\ \A i, j \in 1..Len(xs) : xs[i].symbol = xs[j].symbol => i = j

TextBad == [shape |-> "text_bad", items |-> <<>>]
OtherJson == [shape |-> "other", items |-> <<>>]

Payloads(n) ==
    {[shape |-> s, items |-> xs] : s \in {"list", "text_list"}, xs \in SeqsUpTo(PriceObjects, n)}
    \cup {[shape |-> s, items |-> xs] :
             s \in {"dict", "text_dict"}, xs \in {ys \in SeqsUpTo(PriceObjects, n) : KeysOk(ys)}}
    \cup {TextBad, OtherJson}

\* _http_get_json: requests.get raises (timeout, connection error), or the
\* reply's status code and body come back.
HttpRaise(e) == [exc |-> TRUE, err |-> e, status |-> 0, data |-> OtherJson]
HttpAnswer(s, d) == [exc |-> FALSE, err |-> "none", status |-> s, data |-> d]

Responses(n) ==
    {HttpRaise("Timeout")}
    \cup {HttpAnswer(500, TextBad),
          HttpAnswer(500, [shape |-> "list",
                           items |-> <<[symbol |-> "BTC", value |-> Num(7),
                                        timestamp |-> 123, provider |-> "x"]>>])}
    \cup {HttpAnswer(200, d) : d \in Payloads(n)}

JsonLoadsNot(data) == data

\* json.loads of a text that holds a JSON list or mapping; other text stays.
JsonLoads(data) ==
    IF data.shape = "text_list" THEN [shape |-> "list", items |-> data.items]
    ELSE IF data.shape = "text_dict" THEN [shape |-> "dict", items |-> data.items]
    ELSE data

HasValue(obj) == obj.value.t # "missing"

DefaultProvider(p) == IF p = NoProvider THEN "redstone" ELSE p

\* Case 2 of _normalize_rs_payload: the entries of a mapping that have a value.
DictRecords(items) ==
    LET out[n \in 0..Len(items)] ==
            IF n = 0 THEN <<>>
            ELSE LET obj == items[n]
                 IN  IF HasValue(obj)
                     THEN Append(out[n - 1],
                                 [symbol |-> obj.symbol, value |-> obj.value,
                                  timestamp |-> obj.timestamp,
                                  provider |-> DefaultProvider(obj.provider)])
                     ELSE out[n - 1]
    IN  out[Len(items)]

NormOk(xs) == [ok |-> TRUE, items |-> xs, err |-> "none"]
NormRaise(e) == [ok |-> FALSE, items |-> <<>>, err |-> e]

_normalize_rs_payload(data0) ==
    LET data == JsonLoads(data0)
    IN  IF data.shape = "list" THEN NormOk(data.items)
        ELSE IF data.shape = "dict" /\ DictRecords(data.items) # <<>>
             THEN NormOk(DictRecords(data.items))
        ELSE NormRaise("RuntimeError")

\* The result mapping {SYMBOL: {value, timestamp, provider}} and the outcome
\* of one endpoint try.
EmptyMap == [s \in {} |-> 0]
Put(out, k, v) == [s \in DOMAIN out \cup {k} |-> IF s = k THEN v ELSE out[s]]

EpOk(m) == [ok |-> TRUE, val |-> m, err |-> "none"]
EpRaise(e) == [ok |-> FALSE, val |-> EmptyMap, err |-> e]
EpPending == [ok |-> FALSE, val |-> EmptyMap, err |-> "pending"]

\* str(x) of what stands under "symbol": None becomes the text "None".
Str(x) == IF x = NullSymbol THEN "None" ELSE x

\* float(item["value"]): KeyError without the key.
ItemValue(item) == IF HasValue(item) THEN Float(item.value) ELSE Raise("KeyError")

Record(item) ==
    [value |-> ItemValue(item).val, timestamp |-> item.timestamp,
     provider |-> DefaultProvider(item.provider)]

\* wanted = [s.strip().upper() for s in symbols if s.strip()]
NonBlank(s) == Strip(s) # ""

Wanted(syms) ==
    LET kept == SelectSeq(syms, NonBlank)
    IN  [i \in 1..Len(kept) |-> Upper(Strip(kept[i]))]

\* The loop over the normalized batch: an item whose symbol or value raises
\* is skipped, a later item overwrites an earlier one of the same symbol.
BatchRecords(items, out) ==
    LET acc[n \in 0..Len(items)] ==
            IF n = 0 THEN out
            ELSE LET item == items[n]
                 IN  IF item.symbol # NoSymbol /\ ItemValue(item).ok
                     THEN Put(acc[n - 1], Upper(Str(item.symbol)), Record(item))
                     ELSE acc[n - 1]
    IN  acc[Len(items)]

\* The loop over the normalized reply for one symbol: the first item of that
\* symbol whose value converts; <<>> if there is none.
FirstMatching(items, sym) ==
    LET scan[i \in 1..(Len(items) + 1)] ==
            IF i > Len(items) THEN <<>>
            ELSE LET item == items[i]
                 IN  IF item.symbol # NoSymbol /\ Upper(Str(item.symbol)) = sym /\ ItemValue(item).ok
                     THEN <<Record(item)>>
                     ELSE scan[i + 1]
    IN  scan[1]

\* Lines 77-96, the batch request answered by r: the exception of
\* requests.get leaves the function, a 200 with at least one record returns.
BatchStep(r) ==
    LET norm == _normalize_rs_payload(r.data)
        out == IF norm.ok THEN BatchRecords(norm.items, EmptyMap) ELSE EmptyMap
    IN  IF r.exc THEN [done |-> TRUE, out |-> EpRaise(r.err)]
        ELSE IF r.status = 200 /\ norm.ok /\ DOMAIN out # {}
             THEN [done |-> TRUE, out |-> EpOk(out)]
        ELSE [done |-> FALSE, out |-> EpPending]

\* Lines 101-120, the request for sym answered by r, out so far.
SymbolStep(sym, r, out) ==
    LET norm == _normalize_rs_payload(r.data)
        hit == IF norm.ok THEN FirstMatching(norm.items, sym) ELSE <<>>
    IN  IF r.exc THEN [exc |-> TRUE, err |-> r.err, out |-> out]
        ELSE IF r.status # 200 \/ ~norm.ok \/ hit = <<>>
             THEN [exc |-> FALSE, err |-> "none", out |-> out]
        ELSE [exc |-> FALSE, err |-> "none", out |-> Put(out, sym, hit[1])]

\* Lines 122-125.
Finish(out) == IF DOMAIN out # {} THEN EpOk(out) ELSE EpRaise("NoUsableData")

\* Every outcome _try_redstone_endpoint can have for these symbols: outs[i]
\* are the values out can have before the request for wanted[i].
PerSymbolOutcomes(want, n) ==
    LET Steps(i, os) == {SymbolStep(want[i], r, o) : r \in Responses(n), o \in os}
        outs[i \in 1..(Len(want) + 1)] ==
            IF i = 1 THEN {EmptyMap}
            ELSE {s.out : s \in {t \in Steps(i - 1, outs[i - 1]) : ~t.exc}}
    IN  {Finish(o) : o \in outs[Len(want) + 1]}
        \cup UNION {{EpRaise(s.err) : s \in {t \in Steps(i, outs[i]) : t.exc}} :
                       i \in 1..Len(want)}

_try_redstone_endpoint(syms, n, m) ==
    LET want == Wanted(syms)
        steps == {BatchStep(r) : r \in Responses(n)}
    IN  IF want = <<>> THEN {EpOk(EmptyMap)}
        ELSE {s.out : s \in {t \in steps : t.done}}
             \cup (IF \E t \in steps : ~t.done
                   THEN PerSymbolOutcomes(want, m)
                   ELSE {})

\* `if not wanted: return {}` (lines 72-73) comes before the first
\* _http_get_json call (line 78): an endpoint try sends a request exactly
\* when some symbol is wanted.
SendsRequest(syms) == Wanted(syms) # <<>>

\* `if result:` in fetch_redstone_prices.
ResultNever(result) == FALSE

ResultAlways(result) == TRUE

ResultTruthy(result) == DOMAIN result # {}

\* retry_base_delay * (2 ** (attempt - 1)), attempt already incremented.
BackoffOfNextAttempt(delay, k) == RatMul(delay, RatInt(2 ^ k))

Backoff(delay, k) == RatMul(delay, RatInt(2 ^ (k - 1)))

\* last_err: None, or the error an endpoint try ended with; an endpoint that
\* returned nothing counts as RuntimeError("No data from {ep}").
NoError == [err |-> "none", ep |-> ""]
ErrorOf(r, ep) == [err |-> IF r.ok THEN "NoData" ELSE r.err, ep |-> ep]

KeepFirstErr(old, new) == IF old = NoError THEN new ELSE old

\* last_err = ... (lines 149 and 151)
AssignLastErr(old, new) == new

\* eps = endpoints or REDSTONE_PRICE_ENDPOINTS
NoEndpoints == [none |-> TRUE, list |-> <<>>]
EndpointList(l) == [none |-> FALSE, list |-> l]
EndpointsOrDefault(arg) ==
    IF arg.none \/ arg.list = <<>> THEN REDSTONE_PRICE_ENDPOINTS
    ELSE arg.list

\* The arguments the fetcher is called with, and per symbol list the outcomes
\* one endpoint try can have.
SymbolInputs == {"BTC", " usdc ", "  "}
FetchSymbolLists == {<<>>, <<"  ">>, <<"BTC">>, <<"BTC", " usdc ">>}
EndpointArgs == {NoEndpoints} \cup {EndpointList(l) : l \in SeqsUpTo({"e1", "e2"}, MaxEndpoints)}
BaseDelays == {Rat(1, 2), RatInt(3)}

EndpointOutcomeTable ==
    [s \in FetchSymbolLists |-> _try_redstone_endpoint(s, MaxItems, MaxSymItems)]

\* ------------------------------------------------------------ variables
VARIABLES
    sp_pc,        \* get_spot_mid: "idle", "call", "found", "book", "returned", "raised"
    base, quote,  \* its arguments
    sm,           \* metadata held by find_spot_pair_index (NoMeta out of scope)
    pair_index,   \* what find_spot_pair_index returned (NoIndex before)
    asset_id,     \* SPOT_ASSET_OFFSET + pair_index (NoIndex before)
    book_reqs,    \* asset ids of the l2Book requests posted so far
    ob,           \* the book that came back
    sp_out,       \* outcome of the call
    meta_reqs,    \* number of info.spot_meta() requests made by this call
    sp_prev       \* pair index the previous get_spot_mid call found (NoIndex: none)

spotVars == <<sp_pc, base, quote, sm, pair_index, asset_id, book_reqs, ob, sp_out,
              meta_reqs, sp_prev>>

VARIABLES
    dx_pc,          \* get_pair_mid_from_dexscreener: "idle", "call", "returned", "raised"
    tokenA, tokenB, \* its arguments
    pairs_resp,     \* what _load_pairs_for_token(tokenA) answered
    dx_out          \* outcome of the call

dexVars == <<dx_pc, tokenA, tokenB, pairs_resp, dx_out>>

VARIABLES
    fx_pc,             \* resolve_stable_usd_factor: "idle", "spot", "returned", "raised"
    symbol, preferred_quotes, evm_addresses, evm_usd_reference,  \* its arguments
    qi,                \* position of the loop over preferred_quotes (from 1)
    last_err,          \* last_err
    spot_calls,        \* the get_spot_mid calls made: [base, quote, out]
    dex_calls,         \* the get_pair_mid_from_dexscreener calls made: [a, b, out]
    fx_out,            \* outcome of the call
    rf_pc,             \* resolve_stable_usd_factor_with_usdc_reference: as fx_pc
    usdc_usd_rate,     \* its argument usdc_usd_rate; the others are those above
    rf_qi,             \* position of its loop over preferred_quotes (from 1)
    rf_last_err,       \* its last_err
    rf_spot_calls,     \* its get_spot_mid calls: [base, quote, out]
    rf_dex_calls,      \* its get_pair_mid_from_dexscreener calls: [a, b, out]
    rf_out             \* its outcome

refVars == <<rf_pc, usdc_usd_rate, rf_qi, rf_last_err, rf_spot_calls, rf_dex_calls, rf_out>>

fxVars == <<fx_pc, symbol, preferred_quotes, evm_addresses, evm_usd_reference,
            qi, last_err, spot_calls, dex_calls, fx_out, refVars>>

VARIABLES
    any_pc,            \* get_spot_mid_any: "idle", "loop", "returned", "raised"
    any_base, any_quotes,   \* its arguments base, preferred_quotes
    any_qi,            \* position of the loop (from 1)
    any_last_err,      \* last_err
    any_calls,         \* the get_spot_mid calls made: [base, quote, out]
    any_out            \* outcome of the call

anyVars == <<any_pc, any_base, any_quotes, any_qi, any_last_err, any_calls, any_out>>

VARIABLES
    ep_pc,      \* _try_redstone_endpoint: "idle", "call", "per", "returned", "raised"
    ep_symbols, \* its argument symbols
    wanted,     \* wanted
    ep_i,       \* position of the loop over wanted (from 1)
    ep_acc,     \* out of the per-symbol fallback
    ep_reqs,    \* the query parameters of the requests issued so far
    ep_resps,   \* what _http_get_json did for each of them
    ep_out      \* outcome of the call

epVars == <<ep_pc, ep_symbols, wanted, ep_i, ep_acc, ep_reqs, ep_resps, ep_out>>

VARIABLES
    ft_pc,             \* fetch_redstone_prices: "idle", "loop", "returned", "raised"
    symbols, endpoints, retries, retry_base_delay,   \* its arguments
    eps,               \* eps
    attempt,           \* attempt
    ft_ei,             \* position of the loop over eps (from 1)
    ft_last_err,       \* last_err
    ep_calls,          \* the _try_redstone_endpoint calls made: [ep, attempt, out]
    sleeps,            \* the arguments of the time.sleep calls made
    ft_out,            \* outcome of the call
    ft_carried,        \* the last_err in the message of the final RuntimeError
    ft_http            \* an endpoint try of this call has sent an HTTP request

ftVars == <<ft_pc, symbols, endpoints, retries, retry_base_delay, eps, attempt,
            ft_ei, ft_last_err, ep_calls, sleeps, ft_out, ft_carried, ft_http>>

vars == <<spotVars, dexVars, fxVars, anyVars, epVars, ftVars>>

EpIdle ==
    /\ ep_pc = "idle" /\ ep_symbols = <<>> /\ wanted = <<>> /\ ep_i = 1
    /\ ep_acc = EmptyMap /\ ep_reqs = <<>> /\ ep_resps = <<>> /\ ep_out = EpPending

FtIdle ==
    /\ ft_pc = "idle" /\ symbols = <<>> /\ endpoints = NoEndpoints /\ retries = 0
    /\ retry_base_delay = RatInt(0) /\ eps = <<>> /\ attempt = 0 /\ ft_ei = 1
    /\ ft_last_err = NoError /\ ep_calls = <<>> /\ sleeps = <<>> /\ ft_out = EpPending
    /\ ft_carried = NoError /\ ft_http = FALSE

SpotIdle ==
    /\ sp_pc = "idle" /\ base = "" /\ quote = ""
    /\ sm = NoMeta /\ pair_index = NoIndex /\ asset_id = NoIndex /\ book_reqs = <<>>
    /\ ob = NoBook /\ sp_out = NoOutcome
    /\ meta_reqs = 0 /\ sp_prev = NoIndex

NoPairsResp == [net |-> FALSE, pairs |-> <<>>]

DexIdle ==
    /\ dx_pc = "idle" /\ tokenA = "" /\ tokenB = ""
    /\ pairs_resp = NoPairsResp /\ dx_out = NoOutcome

RefIdle ==
    /\ rf_pc = "idle" /\ usdc_usd_rate = RatInt(1)
    /\ rf_qi = 1 /\ rf_last_err = "none" /\ rf_spot_calls = <<>> /\ rf_dex_calls = <<>>
    /\ rf_out = NoOutcome

FxIdle ==
    /\ fx_pc = "idle" /\ symbol = "" /\ preferred_quotes = <<>>
    /\ evm_addresses = NoAddresses /\ evm_usd_reference = ""
    /\ qi = 1 /\ last_err = "none" /\ spot_calls = <<>> /\ dex_calls = <<>>
    /\ fx_out = NoOutcome
    /\ RefIdle

AnyIdle ==
    /\ any_pc = "idle" /\ any_base = "" /\ any_quotes = <<>>
    /\ any_qi = 1 /\ any_last_err = "none" /\ any_calls = <<>>
    /\ any_out = NoOutcome

\* ------------------------------------------------- get_spot_mid, stepwise
InitSpot ==
    /\ DexIdle /\ FxIdle /\ AnyIdle /\ EpIdle /\ FtIdle
    /\ sp_pc = "call"
    /\ base \in {"FEUSD", "USDT0"}
    /\ quote \in TokenNames
    /\ sm = NoMeta /\ pair_index = NoIndex /\ asset_id = NoIndex /\ book_reqs = <<>>
    /\ ob = NoBook /\ sp_out = NoOutcome
    /\ meta_reqs = 0 /\ sp_prev = NoIndex

\* find_spot_pair_index: info.spot_meta() answers r.
SpotMeta ==
    /\ sp_pc = "call"
    /\ \E r \in SpotMetas(MaxUniverse) :
          LET found == find_spot_pair_index(r, base, quote)
          IN  /\ sm' = r
              /\ IF found.ok
                 THEN /\ pair_index' = found.val.n
                      /\ sp_pc' = "found"
                      /\ sp_out' = sp_out
                 ELSE /\ pair_index' = pair_index
                      /\ sp_pc' = "raised"
                      /\ sp_out' = found
    /\ meta_reqs' = meta_reqs + 1
    /\ UNCHANGED <<base, quote, asset_id, book_reqs, ob, sp_prev>>
    /\ UNCHANGED <<dexVars, fxVars, anyVars, epVars, ftVars>>

\* find_spot_pair_index returned: asset_id = SPOT_ASSET_OFFSET + int(pair_index);
\* the metadata goes out of scope.
SpotAsset ==
    /\ sp_pc = "found"
    /\ asset_id' = SPOT_ASSET_OFFSET + pair_index
    /\ sm' = NoMeta
    /\ sp_pc' = "book"
    /\ UNCHANGED <<base, quote, pair_index, book_reqs, ob, sp_out, meta_reqs, sp_prev>>
    /\ UNCHANGED <<dexVars, fxVars, anyVars, epVars, ftVars>>

\* info.spot_meta() raises.
SpotMetaFails ==
    /\ sp_pc = "call"
    /\ sp_pc' = "raised"
    /\ sp_out' = Raise("NetworkError")
    /\ meta_reqs' = meta_reqs + 1
    /\ UNCHANGED <<base, quote, sm, pair_index, asset_id, book_reqs, ob, sp_prev>>
    /\ UNCHANGED <<dexVars, fxVars, anyVars, epVars, ftVars>>

\* info.post("/info", {"type": "l2Book", "asset": asset_id}) answers b.
SpotBook ==
    /\ sp_pc = "book"
    /\ \E b \in Books(MaxLevels) :
          /\ ob' = b
          /\ sp_out' = BookMid(b)
          /\ sp_pc' = IF BookMid(b).ok THEN "returned" ELSE "raised"
    /\ book_reqs' = Append(book_reqs, asset_id)
    /\ UNCHANGED <<base, quote, sm, pair_index, asset_id, meta_reqs, sp_prev>>
    /\ UNCHANGED <<dexVars, fxVars, anyVars, epVars, ftVars>>

\* info.post raises.
SpotBookFails ==
    /\ sp_pc = "book"
    /\ book_reqs' = Append(book_reqs, asset_id)
    /\ sp_pc' = "raised"
    /\ sp_out' = Raise("NetworkError")
    /\ UNCHANGED <<base, quote, sm, pair_index, asset_id, ob, meta_reqs, sp_prev>>
    /\ UNCHANGED <<dexVars, fxVars, anyVars, epVars, ftVars>>

NextSpot == SpotMeta \/ SpotMetaFails \/ SpotAsset \/ SpotBook \/ SpotBookFails

SpecSpot == InitSpot /\ [][NextSpot]_vars

\* get_spot_mid is over and is called once more: base, quote and every local
\* of the function start anew; the module keeps nothing between calls.
SpotAgain ==
    /\ sp_pc \in {"returned", "raised"}
    /\ sp_pc' = "call"
    /\ base' \in {"FEUSD", "USDT0"}
    /\ quote' \in TokenNames
    /\ sm' = NoMeta /\ pair_index' = NoIndex /\ asset_id' = NoIndex /\ book_reqs' = <<>>
    /\ ob' = NoBook /\ sp_out' = NoOutcome
    /\ meta_reqs' = 0
    /\ sp_prev' = pair_index
    /\ UNCHANGED <<dexVars, fxVars, anyVars, epVars, ftVars>>

NextSpotCalls == NextSpot \/ SpotAgain

SpecSpotCalls == InitSpot /\ [][NextSpotCalls]_vars

\* --------------------------------------------------------------- C5, C6
\* The catalog entries for the pair (b, q), by position.
TokensKnown(m, b, q) ==
    /\ b \in DOMAIN _build_name_to_token_index(m.tokens)
    /\ q \in DOMAIN _build_name_to_token_index(m.tokens)

EntriesFor(m, b, q) ==
    LET idx == _build_name_to_token_index(m.tokens)
    IN  {i \in 1..Len(m.universe) :
            /\ m.universe[i].baseTokenIndex = idx[b]
            /\ m.universe[i].quoteTokenIndex = idx[q]}

FirstOf(S) == CHOOSE i \in S : \A j \in S : i <= j

\* The pair is in the catalog: its first entry carries a pair index.
PairListed(m, b, q) ==
    /\ TokensKnown(m, b, q)
    /\ EntriesFor(m, b, q) # {}
    /\ m.universe[FirstOf(EntriesFor(m, b, q))].index # NoIndex

NumericPx(l) == l.px.t \in {"numstr", "num"}

\* C5: for a (base, quote) whose tokens and exact pair are in the catalog
\* and whose book has a bid and an ask, get_spot_mid returns exactly
\* (bestBid + bestAsk) / 2 of the first levels of the book requested for
\* asset id pairIndex + 10000.
C5_MidOfListedPair ==
    /\ (sm # NoMeta /\ PairListed(sm, base, quote)) =>
          /\ sp_pc = "found"
          /\ pair_index = sm.universe[FirstOf(EntriesFor(sm, base, quote))].index
    /\ sp_pc \in {"book", "returned"} => asset_id = pair_index + 10000
    /\ (Len(book_reqs) > 0 /\ BookBids(ob) # <<>> /\ BookAsks(ob) # <<>>
          /\ NumericPx(BookBids(ob)[1]) /\ NumericPx(BookAsks(ob)[1])) =>
          /\ sp_pc = "returned"
          /\ book_reqs = <<asset_id>>
          /\ sp_out.ok
          /\ sp_out.val.n * 2 * BookBids(ob)[1].px.v.d * BookAsks(ob)[1].px.v.d
               = sp_out.val.d * (BookBids(ob)[1].px.v.n * BookAsks(ob)[1].px.v.d
                                  + BookAsks(ob)[1].px.v.n * BookBids(ob)[1].px.v.d)
    /\ sp_pc = "returned" => (BookBids(ob) # <<>> /\ BookAsks(ob) # <<>>)

C5_Witness ==
    /\ sp_pc = "returned"
    /\ asset_id = 10007
    /\ book_reqs = <<10007>>
    /\ Len(BookBids(ob)) = 2 /\ Len(BookAsks(ob)) = 2
    /\ BookBids(ob)[1].px = NumStr(1) /\ BookAsks(ob)[1].px = NumStr(3)
    /\ BookBids(ob)[2].px = NumStr(3)
    /\ sp_out = Ok(RatInt(2))

\* C6: when the catalog lists only the reversed pair (quote, base),
\* get_spot_mid(base, quote) fails with PairNotFound and requests no book.
C6_NoReverseLookup ==
    (/\ sm # NoMeta
     /\ TokensKnown(sm, base, quote)
     /\ EntriesFor(sm, quote, base) # {}
     /\ EntriesFor(sm, base, quote) = {}) =>
        /\ sp_pc = "raised"
        /\ sp_out = Raise("PairNotFound")
        /\ book_reqs = <<>>

C6_Witness ==
    /\ sp_pc = "raised"
    /\ sp_out = Raise("PairNotFound")
    /\ TokensKnown(sm, base, quote)
    /\ EntriesFor(sm, quote, base) # {}
    /\ sm.universe[FirstOf(EntriesFor(sm, quote, base))].index # NoIndex
    /\ EntriesFor(sm, base, quote) = {}

\* ------------------------------------- get_pair_mid_from_dexscreener
InitDex ==
    /\ SpotIdle /\ FxIdle /\ AnyIdle /\ EpIdle /\ FtIdle
    /\ dx_pc = "call"
    /\ tokenA = "0xAb"
    /\ tokenB \in {"0xCd", "0xAB"}
    /\ pairs_resp = NoPairsResp
    /\ dx_out = NoOutcome

\* The whole call: the pools of tokenA are loaded and scanned.
DexCall ==
    /\ dx_pc = "call"
    /\ \E r \in PairsResps(MaxPools) :
          LET out == get_pair_mid_from_dexscreener(r, tokenA, tokenB)
          IN  /\ pairs_resp' = r
              /\ dx_out' = out
              /\ dx_pc' = IF out.ok THEN "returned" ELSE "raised"
    /\ UNCHANGED <<tokenA, tokenB>>
    /\ UNCHANGED <<spotVars, fxVars, anyVars, epVars, ftVars>>

NextDex == DexCall

SpecDex == InitDex /\ [][NextDex]_vars

\* ------------------------------------------------------------------- C7
HasAddrs(p) == p.base # "" /\ p.quote # ""
IsExact(p, a, b) == HasAddrs(p) /\ Lower(p.base) = Lower(a) /\ Lower(p.quote) = Lower(b)
IsInverted(p, a, b) == HasAddrs(p) /\ Lower(p.base) = Lower(b) /\ Lower(p.quote) = Lower(a)

OrientationMatching(ps, a, b) ==
    {i \in 1..Len(ps) : IsExact(ps[i], a, b) \/ IsInverted(ps[i], a, b)}

ParseableNonZero(p) ==
    /\ Truthy(PriceStr(p))
    /\ Float(PriceStr(p)).ok
    /\ ~RatIsZero(Float(PriceStr(p)).val)

\* The first orientation-matching pool has base = tokenB, quote = tokenA and
\* a parseable non-zero price.
FirstMatchInverted ==
    /\ dx_pc \in {"returned", "raised"}
    /\ pairs_resp.net
    /\ OrientationMatching(pairs_resp.pairs, tokenA, tokenB) # {}
    /\ LET p == pairs_resp.pairs[FirstOf(OrientationMatching(pairs_resp.pairs, tokenA, tokenB))]
       IN  IsInverted(p, tokenA, tokenB) /\ ParseableNonZero(p)

ReciprocalReturned ==
    LET p == pairs_resp.pairs[FirstOf(OrientationMatching(pairs_resp.pairs, tokenA, tokenB))]
        v == Float(PriceStr(p)).val
    IN  /\ dx_pc = "returned"
        /\ dx_out.ok
        /\ dx_out.val.n * v.n = dx_out.val.d * v.d

\* C7 as stated: whenever the first orientation-matching pool is base =
\* tokenB, quote = tokenA with a parseable non-zero price p, the call
\* returns 1/p.
C7_Original == FirstMatchInverted => ReciprocalReturned

\* C7 amended: the same, for tokenA and tokenB that differ when compared
\* case-insensitively (a pool of a token against itself also matches the
\* exact orientation, which is tested first and returns p).
C7_InvertedReciprocal ==
    (FirstMatchInverted /\ Lower(tokenA) # Lower(tokenB)) => ReciprocalReturned

C7_Witness ==
    /\ FirstMatchInverted
    /\ Lower(tokenA) # Lower(tokenB)
    /\ Len(pairs_resp.pairs) = 2
    /\ FirstOf(OrientationMatching(pairs_resp.pairs, tokenA, tokenB)) = 2
    /\ PriceStr(pairs_resp.pairs[2]) = NumStr(2)
    /\ dx_out = Ok(Rat(1, 2))

\* ------------------------------------------------------ C11, C15 .. C17
DexDone == dx_pc \in {"returned", "raised"} /\ pairs_resp.net

\* The pool reports a price that float() converts.
ParseablePrice(p) == Truthy(PriceStr(p)) /\ Float(PriceStr(p)).ok

\* C11: when at least one pool of the response with both token addresses
\* reports a parseable price, the call returns a value; it fails with
\* NoPoolFound only when no pool yields a parseable price.
C11_NoPoolFoundOnlyWithoutPrice ==
    (/\ DexDone
     /\ \E i \in 1..Len(pairs_resp.pairs) :
           HasAddrs(pairs_resp.pairs[i]) /\ ParseablePrice(pairs_resp.pairs[i]))
    => dx_out.ok

\* An inverted-orientation pool (and not also an exact one) priced zero.
InvertedZero(p) ==
    /\ IsInverted(p, tokenA, tokenB)
    /\ ~IsExact(p, tokenA, tokenB)
    /\ ParseablePrice(p)
    /\ RatIsZero(Float(PriceStr(p)).val)

\* C15: an inverted-orientation pool whose price is zero is disqualified:
\* no division by zero, and whenever the call returns zero with such a pool
\* in the response, the zero is the price of some other pool.
C15_ZeroInvertedDisqualified ==
    (DexDone /\ \E i \in 1..Len(pairs_resp.pairs) : InvertedZero(pairs_resp.pairs[i])) =>
        /\ dx_out.err # "ZeroDivisionError"
        /\ (dx_out.ok /\ RatIsZero(dx_out.val)) =>
              \E j \in 1..Len(pairs_resp.pairs) :
                 /\ HasAddrs(pairs_resp.pairs[j])
                 /\ ~InvertedZero(pairs_resp.pairs[j])
                 /\ ParseablePrice(pairs_resp.pairs[j])
                 /\ RatIsZero(Float(PriceStr(pairs_resp.pairs[j])).val)

\* The pools in exact orientation that report a parseable price.
ExactPriced ==
    {i \in 1..Len(pairs_resp.pairs) :
        IsExact(pairs_resp.pairs[i], tokenA, tokenB) /\ ParseablePrice(pairs_resp.pairs[i])}

\* A pool before position i is in inverted orientation with a parseable
\* non-zero price.
InvertedBefore(i) ==
    \E j \in 1..(i - 1) :
        IsInverted(pairs_resp.pairs[j], tokenA, tokenB) /\ ParseableNonZero(pairs_resp.pairs[j])

FirstExactReturned ==
    dx_out = Ok(Float(PriceStr(pairs_resp.pairs[FirstOf(ExactPriced)])).val)

\* C16 as stated: when the pools contain one in exact orientation with a
\* parseable price, the call returns the price of the first such pool.
C16_Original == (DexDone /\ ExactPriced # {}) => FirstExactReturned

\* C16 amended: the same, when no earlier pool in scan order is in inverted
\* orientation with a parseable non-zero price (the scan returns at the
\* first pool that matches either orientation).
C16_ExactFirstMatch ==
    (DexDone /\ ExactPriced # {} /\ ~InvertedBefore(FirstOf(ExactPriced))) => FirstExactReturned

C16_Witness ==
    /\ DexDone
    /\ Len(pairs_resp.pairs) = 2
    /\ ExactPriced = {2}
    /\ LiqUsd(pairs_resp.pairs[1]) = RatInt(20)
    /\ ParseablePrice(pairs_resp.pairs[1])
    /\ LiqUsd(pairs_resp.pairs[2]) = RatInt(0)
    /\ dx_out = Ok(RatInt(2))

\* Among the pools with both addresses and a parseable price, the earliest
\* of those with the highest USD liquidity.
PricedPools ==
    {i \in 1..Len(pairs_resp.pairs) :
        HasAddrs(pairs_resp.pairs[i]) /\ ParseablePrice(pairs_resp.pairs[i])}

MostLiquid ==
    FirstOf({i \in PricedPools :
                \A j \in PricedPools :
                    ~RatLess(LiqUsd(pairs_resp.pairs[i]), LiqUsd(pairs_resp.pairs[j]))})

\* C17: when no pool matches tokenA/tokenB in either orientation, the call
\* returns the raw price of the most liquid pool among those reporting a
\* parseable price, the earliest on a tie, a missing or unparseable
\* liquidity counting as 0.
C17_LiquidityRankedFallback ==
    (/\ DexDone
     /\ OrientationMatching(pairs_resp.pairs, tokenA, tokenB) = {}
     /\ PricedPools # {})
    => dx_out = Ok(Float(PriceStr(pairs_resp.pairs[MostLiquid])).val)


\* ---------------------------------------------- resolve_stable_usd_factor
AddressMaps ==
    { NoAddresses,
      Addresses(<<>>),
      Addresses([x \in {"FEUSD"} |-> "0xAb"]),
      Addresses([x \in {"USDC"} |-> "0xCd"]),
      Addresses([x \in {"FEUSD", "USDC"} |-> IF x = "FEUSD" THEN "0xAb" ELSE "0xCd"]) }

InitFx ==
    /\ SpotIdle /\ DexIdle /\ AnyIdle /\ EpIdle /\ FtIdle
    /\ fx_pc = "spot"
    /\ symbol = "FEUSD"
    /\ preferred_quotes \in SeqsUpTo({"USDT0", "USDHL"}, MaxQuotes) \cup {DefaultPreferredQuotes}
    /\ evm_addresses \in AddressMaps
    /\ evm_usd_reference \in {"USDC", "FEUSD"}
    /\ qi = 1 /\ last_err = "none" /\ spot_calls = <<>> /\ dex_calls = <<>>
    /\ fx_out = NoOutcome
    /\ RefIdle

\* A) one round of the loop over preferred_quotes: get_spot_mid(info, symbol, q).
FxSpot ==
    /\ fx_pc = "spot"
    /\ ForHasNext(preferred_quotes, qi)
    /\ \E r \in SpotOutcomeTable[symbol, preferred_quotes[qi]] :
          /\ spot_calls' = Append(spot_calls,
                                  [base |-> symbol, quote |-> preferred_quotes[qi], out |-> r])
          /\ IF SpotTierReturns(r)
             THEN /\ fx_out' = r
                  /\ fx_pc' = "returned"
                  /\ UNCHANGED <<qi, last_err>>
             ELSE IF ExceptException(r)
             THEN /\ last_err' = r.err
                  /\ qi' = qi + 1
                  /\ UNCHANGED <<fx_pc, fx_out>>
             ELSE /\ fx_out' = r
                  /\ fx_pc' = "raised"
                  /\ UNCHANGED <<qi, last_err>>
    /\ UNCHANGED <<symbol, preferred_quotes, evm_addresses, evm_usd_reference, dex_calls>>
    /\ UNCHANGED <<refVars, spotVars, dexVars, anyVars, epVars, ftVars>>

\* B) the loop is over and the address map holds both addresses: one DEX
\* call; its value is returned, its failure falls to the peg.
FxDex ==
    /\ fx_pc = "spot"
    /\ ~ForHasNext(preferred_quotes, qi)
    /\ DexTierApplies(evm_addresses, symbol, evm_usd_reference)
    /\ \E r \in DexOutcomeTable[evm_addresses.map[symbol], evm_addresses.map[evm_usd_reference]] :
          LET a == evm_addresses.map[symbol]
              b == evm_addresses.map[evm_usd_reference]
          IN  /\ dex_calls' = Append(dex_calls, [a |-> a, b |-> b, out |-> r])
              /\ IF r.ok
                 THEN /\ fx_out' = r
                      /\ fx_pc' = "returned"
                      /\ UNCHANGED last_err
                 ELSE IF ExceptException(r)
                 THEN /\ last_err' = r.err
                      /\ fx_out' = Ok(Peg)
                      /\ fx_pc' = "returned"
                 ELSE /\ fx_out' = r
                      /\ fx_pc' = "raised"
                      /\ UNCHANGED last_err
    /\ UNCHANGED <<symbol, preferred_quotes, evm_addresses, evm_usd_reference, qi, spot_calls>>
    /\ UNCHANGED <<refVars, spotVars, dexVars, anyVars, epVars, ftVars>>

\* C) the loop is over and the DEX tier is skipped: the peg.
FxPeg ==
    /\ fx_pc = "spot"
    /\ ~ForHasNext(preferred_quotes, qi)
    /\ ~DexTierApplies(evm_addresses, symbol, evm_usd_reference)
    /\ fx_out' = Ok(Peg)
    /\ fx_pc' = "returned"
    /\ UNCHANGED <<symbol, preferred_quotes, evm_addresses, evm_usd_reference,
                   qi, last_err, spot_calls, dex_calls>>
    /\ UNCHANGED <<refVars, spotVars, dexVars, anyVars, epVars, ftVars>>

NextFx == FxSpot \/ FxDex \/ FxPeg

SpecFx == InitFx /\ [][NextFx]_vars

\* --------------------- resolve_stable_usd_factor_with_usdc_reference
\* The bridging variant is run after resolve_stable_usd_factor, with the
\* same arguments and against the same upstream: its k-th call is answered
\* as the k-th call of the first resolution was, and a call the first
\* resolution did not make is answered afresh.
SameUpstream(calls, k, fresh) == IF k <= Len(calls) THEN {calls[k].out} ELSE fresh

InitRef ==
    /\ SpotIdle /\ DexIdle /\ AnyIdle /\ EpIdle /\ FtIdle
    /\ fx_pc = "spot"
    /\ symbol = "FEUSD"
    /\ preferred_quotes \in SeqsUpTo({"USDT0", "USDHL"}, MaxQuotes)
    /\ evm_addresses \in AddressMaps
    /\ evm_usd_reference \in {"USDC", "FEUSD"}
    /\ qi = 1 /\ last_err = "none" /\ spot_calls = <<>> /\ dex_calls = <<>>
    /\ fx_out = NoOutcome
    /\ rf_pc = "spot"
    /\ usdc_usd_rate \in ReferenceRates
    /\ rf_qi = 1 /\ rf_last_err = "none" /\ rf_spot_calls = <<>> /\ rf_dex_calls = <<>>
    /\ rf_out = NoOutcome

RefFrame ==
    /\ UNCHANGED <<fx_pc, symbol, preferred_quotes, evm_addresses, evm_usd_reference,
                   qi, last_err, spot_calls, dex_calls, fx_out, usdc_usd_rate>>
    /\ UNCHANGED <<spotVars, dexVars, anyVars, epVars, ftVars>>

\* one round of the loop over preferred_quotes (lines 93-98)
RefSpot ==
    /\ fx_pc \in {"returned", "raised"}
    /\ rf_pc = "spot"
    /\ ForHasNext(preferred_quotes, rf_qi)
    /\ \E r \in SameUpstream(spot_calls, rf_qi,
                              SpotOutcomeTable[symbol, preferred_quotes[rf_qi]]) :
          /\ rf_spot_calls' = Append(rf_spot_calls,
                                     [base |-> symbol, quote |-> preferred_quotes[rf_qi],
                                      out |-> r])
          /\ IF SpotTierReturns(r)
             THEN /\ rf_out' = r
                  /\ rf_pc' = "returned"
                  /\ UNCHANGED <<rf_qi, rf_last_err>>
             ELSE IF ExceptException(r)
             THEN /\ rf_last_err' = r.err
                  /\ rf_qi' = rf_qi + 1
                  /\ UNCHANGED <<rf_pc, rf_out>>
             ELSE /\ rf_out' = r
                  /\ rf_pc' = "raised"
                  /\ UNCHANGED <<rf_qi, rf_last_err>>
    /\ UNCHANGED rf_dex_calls
    /\ RefFrame

\* the DEX call, its value multiplied by usdc_usd_rate (lines 101-110)
RefDex ==
    /\ fx_pc \in {"returned", "raised"}
    /\ rf_pc = "spot"
    /\ ~ForHasNext(preferred_quotes, rf_qi)
    /\ DexTierApplies(evm_addresses, symbol, evm_usd_reference)
    /\ \E r \in SameUpstream(dex_calls, 1,
                              DexOutcomeTable[evm_addresses.map[symbol],
                                              evm_addresses.map[evm_usd_reference]]) :
          /\ rf_dex_calls' = Append(rf_dex_calls,
                                    [a |-> evm_addresses.map[symbol],
                                     b |-> evm_addresses.map[evm_usd_reference], out |-> r])
          /\ IF r.ok
             THEN /\ rf_out' = Ok(Scale(r.val, usdc_usd_rate))
                  /\ rf_pc' = "returned"
                  /\ UNCHANGED rf_last_err
             ELSE IF ExceptException(r)
             THEN /\ rf_last_err' = r.err
                  /\ rf_out' = Ok(Peg)
                  /\ rf_pc' = "returned"
             ELSE /\ rf_out' = r
                  /\ rf_pc' = "raised"
                  /\ UNCHANGED rf_last_err
    /\ UNCHANGED <<rf_qi, rf_spot_calls>>
    /\ RefFrame

\* the peg (line 113)
RefPeg ==
    /\ fx_pc \in {"returned", "raised"}
    /\ rf_pc = "spot"
    /\ ~ForHasNext(preferred_quotes, rf_qi)
    /\ ~DexTierApplies(evm_addresses, symbol, evm_usd_reference)
    /\ rf_out' = Ok(Peg)
    /\ rf_pc' = "returned"
    /\ UNCHANGED <<rf_qi, rf_last_err, rf_spot_calls, rf_dex_calls>>
    /\ RefFrame

NextRef == FxSpot \/ FxDex \/ FxPeg \/ RefSpot \/ RefDex \/ RefPeg

SpecRef == InitRef /\ [][NextRef]_vars

\* --------------------------------------------------------- C1, C2, C8
AllFailed(calls) == \A k \in 1..Len(calls) : ~calls[k].out.ok

\* The guard of FxSpot, FxDex or FxPeg holds: the call can take its next step.
FxCanStep ==
    \/ /\ ForHasNext(preferred_quotes, qi)
       /\ SpotOutcomeTable[symbol, preferred_quotes[qi]] # {}
    \/ /\ ~ForHasNext(preferred_quotes, qi)
       /\ DexTierApplies(evm_addresses, symbol, evm_usd_reference)
       /\ DexOutcomeTable[evm_addresses.map[symbol], evm_addresses.map[evm_usd_reference]] # {}
    \/ /\ ~ForHasNext(preferred_quotes, qi)
       /\ ~DexTierApplies(evm_addresses, symbol, evm_usd_reference)

C2_SpotShortCircuit ==
    \A k \in 1..Len(spot_calls) :
        /\ k <= Len(preferred_quotes)
        /\ spot_calls[k].base = symbol
        /\ spot_calls[k].quote = preferred_quotes[k]
        /\ spot_calls[k].out.ok =>
              /\ k = Len(spot_calls)
              /\ fx_pc = "returned"
              /\ fx_out = spot_calls[k].out
              /\ dex_calls = <<>>

C2_Witness ==
    /\ Len(preferred_quotes) = 2
    /\ DexTierApplies(evm_addresses, symbol, evm_usd_reference)
    /\ Len(spot_calls) = 1
    /\ spot_calls[1].out = Ok(RatInt(2))
    /\ fx_pc = "returned"
    /\ fx_out = Ok(RatInt(2))
    /\ dex_calls = <<>>

\* C8: every value resolve_stable_usd_factor returns is strictly positive.
C8_PositiveFactor == fx_pc = "returned" => RatPositive(fx_out.val)

\* ------------------------------------------------------ get_spot_mid_any
InitAny ==
    /\ SpotIdle /\ DexIdle /\ FxIdle /\ EpIdle /\ FtIdle
    /\ any_pc = "loop"
    /\ any_base = "FEUSD"
    /\ any_quotes \in SeqsUpTo({"USDT0", "USDHL"}, MaxQuotes)
    /\ any_qi = 1 /\ any_last_err = "none" /\ any_calls = <<>>
    /\ any_out = NoOutcome

\* One round of the loop: get_spot_mid(info, base, quote).
AnyTry ==
    /\ any_pc = "loop"
    /\ ForHasNext(any_quotes, any_qi)
    /\ \E r \in SpotOutcomeTable[any_base, any_quotes[any_qi]] :
          /\ any_calls' = Append(any_calls,
                                 [base |-> any_base, quote |-> any_quotes[any_qi], out |-> r])
          /\ IF r.ok
             THEN /\ any_out' = r
                  /\ any_pc' = "returned"
                  /\ UNCHANGED <<any_qi, any_last_err>>
             ELSE /\ any_last_err' = r.err
                  /\ any_qi' = any_qi + 1
                  /\ UNCHANGED <<any_pc, any_out>>
    /\ UNCHANGED <<any_base, any_quotes>>
    /\ UNCHANGED <<spotVars, dexVars, fxVars, epVars, ftVars>>

\* The loop is over: raise RuntimeError("No available spot mid ...").
AnyExhausted ==
    /\ any_pc = "loop"
    /\ ~ForHasNext(any_quotes, any_qi)
    /\ any_out' = Raise("NoQuoteAvailable")
    /\ any_pc' = "raised"
    /\ UNCHANGED <<any_base, any_quotes, any_qi, any_last_err, any_calls>>
    /\ UNCHANGED <<spotVars, dexVars, fxVars, epVars, ftVars>>

NextAny == AnyTry \/ AnyExhausted

SpecAny == InitAny /\ [][NextAny]_vars

\* The guard of AnyTry or AnyExhausted holds.
AnyCanStep ==
    \/ /\ ForHasNext(any_quotes, any_qi)
       /\ SpotOutcomeTable[any_base, any_quotes[any_qi]] # {}
    \/ ~ForHasNext(any_quotes, any_qi)

\* C10: get_spot_mid_any calls get_spot_mid for the candidates in the given
\* order, returns the mid of the first that succeeds without trying a later
\* one, and fails with NoQuoteAvailable exactly when every candidate failed.
C10_FirstAvailableQuote ==
    /\ \A k \in 1..Len(any_calls) :
          /\ k <= Len(any_quotes)
          /\ any_calls[k].base = any_base
          /\ any_calls[k].quote = any_quotes[k]
          /\ any_calls[k].out.ok =>
                (k = Len(any_calls) /\ any_pc = "returned" /\ any_out = any_calls[k].out)
    /\ any_pc = "returned" => (any_calls # <<>> /\ any_calls[Len(any_calls)].out.ok)
    /\ any_pc = "raised" =>
          /\ any_out = Raise("NoQuoteAvailable")
          /\ Len(any_calls) = Len(any_quotes)
          /\ AllFailed(any_calls)
    /\ any_pc = "loop" =>
          /\ AnyCanStep
          /\ AllFailed(any_calls)
          /\ any_qi = Len(any_calls) + 1

C10_Witness ==
    /\ any_pc = "raised"
    /\ any_out = Raise("NoQuoteAvailable")
    /\ Len(any_quotes) = 2
    /\ Len(any_calls) = 2
    /\ any_calls[1].out = Raise("PairNotFound")
    /\ any_calls[2].out = Raise("NoLiquidity")

\* --------------------------------------- _try_redstone_endpoint, stepwise
InitEndpoint ==
    /\ SpotIdle /\ DexIdle /\ FxIdle /\ AnyIdle /\ FtIdle
    /\ ep_pc = "call"
    /\ ep_symbols \in SeqsUpTo(SymbolInputs, MaxSymbols)
    /\ wanted = Wanted(ep_symbols)
    /\ ep_i = 1 /\ ep_acc = EmptyMap /\ ep_reqs = <<>> /\ ep_resps = <<>>
    /\ ep_out = EpPending

\* Lines 72-73: nothing wanted, {} without a request.
EpNothingWanted ==
    /\ ep_pc = "call"
    /\ wanted = <<>>
    /\ ep_out' = EpOk(EmptyMap)
    /\ ep_pc' = "returned"
    /\ UNCHANGED <<ep_symbols, wanted, ep_i, ep_acc, ep_reqs, ep_resps>>
    /\ UNCHANGED <<spotVars, dexVars, fxVars, anyVars, ftVars>>

\* Lines 77-96: the batch request symbols=..., answered by r.
EpBatch ==
    /\ ep_pc = "call"
    /\ wanted # <<>>
    /\ \E r \in Responses(MaxItems) :
          LET step == BatchStep(r)
          IN  /\ ep_reqs' = Append(ep_reqs, [param |-> "symbols", value |-> wanted])
              /\ ep_resps' = Append(ep_resps, r)
              /\ IF step.done
                 THEN /\ ep_out' = step.out
                      /\ ep_pc' = IF step.out.ok THEN "returned" ELSE "raised"
                 ELSE /\ ep_pc' = "per"
                      /\ UNCHANGED ep_out
    /\ UNCHANGED <<ep_symbols, wanted, ep_i, ep_acc>>
    /\ UNCHANGED <<spotVars, dexVars, fxVars, anyVars, ftVars>>

\* Lines 100-120: the request symbol=wanted[ep_i], answered by r.
EpSymbol ==
    /\ ep_pc = "per"
    /\ ep_i <= Len(wanted)
    /\ \E r \in Responses(MaxSymItems) :
          LET step == SymbolStep(wanted[ep_i], r, ep_acc)
          IN  /\ ep_reqs' = Append(ep_reqs, [param |-> "symbol", value |-> <<wanted[ep_i]>>])
              /\ ep_resps' = Append(ep_resps, r)
              /\ IF step.exc
                 THEN /\ ep_out' = EpRaise(step.err)
                      /\ ep_pc' = "raised"
                      /\ UNCHANGED <<ep_i, ep_acc>>
                 ELSE /\ ep_acc' = step.out
                      /\ ep_i' = ep_i + 1
                      /\ UNCHANGED <<ep_pc, ep_out>>
    /\ UNCHANGED <<ep_symbols, wanted>>
    /\ UNCHANGED <<spotVars, dexVars, fxVars, anyVars, ftVars>>

\* Lines 122-125: the loop is over.
EpFinish ==
    /\ ep_pc = "per"
    /\ ep_i > Len(wanted)
    /\ ep_out' = Finish(ep_acc)
    /\ ep_pc' = IF Finish(ep_acc).ok THEN "returned" ELSE "raised"
    /\ UNCHANGED <<ep_symbols, wanted, ep_i, ep_acc, ep_reqs, ep_resps>>
    /\ UNCHANGED <<spotVars, dexVars, fxVars, anyVars, ftVars>>

NextEndpoint == EpNothingWanted \/ EpBatch \/ EpSymbol \/ EpFinish

SpecEndpoint == InitEndpoint /\ [][NextEndpoint]_vars

\* A reply carries a usable record (for sym): status 200 and, in the list or
\* mapping it holds, an object with a symbol (that symbol) and a numeric value.
UsableObjects(r) ==
    IF r.exc \/ r.status # 200 \/ r.data.shape \in {"text_bad", "other"} THEN {}
    ELSE {r.data.items[i] : i \in {j \in 1..Len(r.data.items) :
             /\ r.data.items[j].symbol \notin {NoSymbol, NullSymbol}
             /\ r.data.items[j].value.t \in {"numstr", "num"}}}

RequestSucceeded(r, sym) == \E o \in UsableObjects(r) : Upper(o.symbol) = sym

\* C4: when the batch request fails or yields no usable record, one request
\* per requested symbol follows on the same endpoint, and the endpoint's
\* result holds exactly the records of the symbols whose own request
\* succeeded, whatever happened to the requests of the other symbols.
C4_PerSymbolFallback ==
    (ep_pc \in {"returned", "raised"} /\ wanted # <<>> /\ UsableObjects(ep_resps[1]) = {}) =>
        /\ Len(ep_reqs) = 1 + Len(wanted)
        /\ \A i \in 1..Len(wanted) :
              ep_reqs[i + 1] = [param |-> "symbol", value |-> <<wanted[i]>>]
        /\ LET good == {i \in 1..Len(wanted) : RequestSucceeded(ep_resps[i + 1], wanted[i])}
           IN  good # {} => (ep_out.ok /\ DOMAIN ep_out.val = {wanted[i] : i \in good})

\* ------------------------------------------ fetch_redstone_prices, stepwise
InitFetch ==
    /\ SpotIdle /\ DexIdle /\ FxIdle /\ AnyIdle /\ EpIdle
    /\ ft_pc = "loop"
    /\ symbols \in FetchSymbolLists
    /\ endpoints \in EndpointArgs
    /\ retries \in 0..MaxRetries
    /\ retry_base_delay \in BaseDelays
    /\ eps = EndpointsOrDefault(endpoints)
    /\ attempt = 0 /\ ft_ei = 1 /\ ft_last_err = NoError
    /\ ep_calls = <<>> /\ sleeps = <<>> /\ ft_out = EpPending /\ ft_carried = NoError
    /\ ft_http = FALSE

\* Lines 143-151: the next endpoint of this attempt is tried.
FetchTry ==
    /\ ft_pc = "loop"
    /\ attempt < retries
    /\ ft_ei <= Len(eps)
    /\ \E r \in EndpointOutcomeTable[symbols] :
          /\ ep_calls' = Append(ep_calls, [ep |-> eps[ft_ei], attempt |-> attempt, out |-> r])
          /\ IF r.ok /\ ResultTruthy(r.val)
             THEN /\ ft_out' = r
                  /\ ft_pc' = "returned"
                  /\ UNCHANGED <<ft_ei, ft_last_err>>
             ELSE /\ ft_last_err' = AssignLastErr(ft_last_err, ErrorOf(r, eps[ft_ei]))
                  /\ ft_ei' = ft_ei + 1
                  /\ UNCHANGED <<ft_pc, ft_out>>
    /\ ft_http' = (ft_http \/ SendsRequest(symbols))
    /\ UNCHANGED <<symbols, endpoints, retries, retry_base_delay, eps, attempt, sleeps,
                   ft_carried>>
    /\ UNCHANGED <<spotVars, dexVars, fxVars, anyVars, epVars>>

\* Lines 152-153: every endpoint was tried; count the attempt and sleep.
FetchSleep ==
    /\ ft_pc = "loop"
    /\ attempt < retries
    /\ ft_ei > Len(eps)
    /\ attempt' = attempt + 1
    /\ sleeps' = Append(sleeps, Backoff(retry_base_delay, attempt + 1))
    /\ ft_ei' = 1
    /\ UNCHANGED <<ft_pc, symbols, endpoints, retries, retry_base_delay, eps,
                   ft_last_err, ep_calls, ft_out, ft_carried, ft_http>>
    /\ UNCHANGED <<spotVars, dexVars, fxVars, anyVars, epVars>>

\* Line 155: the while loop is over.
FetchExhausted ==
    /\ ft_pc = "loop"
    /\ ~(attempt < retries)
    /\ ft_out' = EpRaise("ExhaustedRetries")
    /\ ft_carried' = ft_last_err
    /\ ft_pc' = "raised"
    /\ UNCHANGED <<symbols, endpoints, retries, retry_base_delay, eps, attempt,
                   ft_ei, ft_last_err, ep_calls, sleeps, ft_http>>
    /\ UNCHANGED <<spotVars, dexVars, fxVars, anyVars, epVars>>

NextFetch == FetchTry \/ FetchSleep \/ FetchExhausted

SpecFetch == InitFetch /\ [][NextFetch]_vars

\* An endpoint try failed: it raised, or it returned nothing.
EndpointFailed(c) == ~c.out.ok \/ DOMAIN c.out.val = {}

\* The guard of FetchTry, FetchSleep or FetchExhausted holds.
FetchCanStep ==
    \/ attempt < retries /\ ft_ei <= Len(eps) /\ EndpointOutcomeTable[symbols] # {}
    \/ attempt < retries /\ ft_ei > Len(eps)
    \/ ~(attempt < retries)

\* C3: while every endpoint fails, the call goes through exactly `retries`
\* attempts, each over all endpoints in list order, sleeps
\* retry_base_delay * 2^i after attempt i = 0 .. retries-1, and ends in
\* ExhaustedRetries; it returns a value only if some endpoint did not fail.
C3_RetryTiming ==
    /\ \A k \in 1..Len(sleeps) : sleeps[k] = RatMul(retry_base_delay, RatInt(2 ^ (k - 1)))
    /\ \A k \in 1..Len(ep_calls) :
          /\ ep_calls[k].attempt = (k - 1) \div Len(eps)
          /\ ep_calls[k].ep = eps[((k - 1) % Len(eps)) + 1]
          /\ ep_calls[k].attempt < retries
    /\ ft_pc = "loop" =>
          /\ FetchCanStep
          /\ \A k \in 1..Len(ep_calls) : EndpointFailed(ep_calls[k])
          /\ Len(sleeps) = attempt
          /\ Len(ep_calls) = attempt * Len(eps) + (ft_ei - 1)
    /\ ft_pc = "raised" =>
          /\ ft_out = EpRaise("ExhaustedRetries")
          /\ \A k \in 1..Len(ep_calls) : EndpointFailed(ep_calls[k])
          /\ Len(ep_calls) = retries * Len(eps)
          /\ Len(sleeps) = retries
    /\ ft_pc = "returned" =>
          \E k \in 1..Len(ep_calls) : ~EndpointFailed(ep_calls[k])

C3_Witness ==
    /\ ft_pc = "raised"
    /\ retries = 2
    /\ retry_base_delay = [n |-> 1, d |-> 2]
    /\ sleeps = <<[n |-> 1, d |-> 2], [n |-> 1, d |-> 1]>>
    /\ eps = <<"e1", "e2">>
    /\ Len(ep_calls) = 4
    /\ ep_calls[2].out = EpRaise("Timeout")
    /\ ep_calls[3].out = EpRaise("NoUsableData")

\* C9: endpoints are tried in list order, and the first endpoint try that
\* yields a record ends the call with that endpoint's records: it is the
\* last try made, and the only sleeps are those of the attempts before it.
C9_EndpointShortCircuit ==
    /\ \A k \in 1..Len(ep_calls) :
          /\ ep_calls[k].ep = eps[((k - 1) % Len(eps)) + 1]
          /\ ~EndpointFailed(ep_calls[k]) =>
                /\ k = Len(ep_calls)
                /\ ft_pc = "returned"
                /\ ft_out = EpOk(ep_calls[k].out.val)
                /\ Len(sleeps) = ep_calls[k].attempt
                /\ attempt = ep_calls[k].attempt
    /\ ft_pc = "returned" =>
          /\ ep_calls # <<>>
          /\ ~EndpointFailed(ep_calls[Len(ep_calls)])

C9_Witness ==
    /\ ft_pc = "returned"
    /\ eps = <<"e1", "e2">>
    /\ retries = 2
    /\ Len(ep_calls) = 3
    /\ ep_calls[3].ep = "e1"
    /\ Len(sleeps) = 1
    /\ "BTC" \in DOMAIN ft_out.val

\* C12: the ExhaustedRetries failure carries the last observed error: that
\* of the last endpoint scanned in the final attempt, the no-data error if
\* that endpoint returned nothing, never one of an earlier endpoint or
\* attempt.
C12_CarriesLastError ==
    /\ (ft_pc = "raised" /\ ep_calls # <<>>) =>
          LET c == ep_calls[Len(ep_calls)]
          IN  /\ c.attempt = retries - 1
              /\ c.ep = eps[Len(eps)]
              /\ ft_carried.ep = c.ep
              /\ ft_carried.err = IF c.out.ok THEN "NoData" ELSE c.out.err
    /\ ft_pc # "raised" => ft_carried = NoError

C12_Witness ==
    /\ ft_pc = "raised"
    /\ eps = <<"e1", "e2">>
    /\ retries = 2
    /\ ep_calls[1].out = EpRaise("Timeout")
    /\ ep_calls[3].out = EpRaise("Timeout")
    /\ ep_calls[4].out = EpRaise("NoUsableData")
    /\ ft_carried = [err |-> "NoUsableData", ep |-> "e2"]

\* The tier a finished resolution took its value from.
TierOf(sc, dc) ==
    IF sc # <<>> /\ sc[Len(sc)].out.ok THEN "spot"
    ELSE IF dc # <<>> /\ dc[Len(dc)].out.ok THEN "dex"
    ELSE "peg"

\* C13: for the same arguments and the same upstream outcomes,
\* resolve_stable_usd_factor_with_usdc_reference makes the calls
\* resolve_stable_usd_factor makes and takes its value from the same tier;
\* its result is the base resolver's result times usdc_usd_rate when the DEX
\* call produced the value, and the base resolver's result itself when a
\* spot mid or the peg did.
C13_BridgingSameTier ==
    rf_pc \in {"returned", "raised"} =>
        /\ fx_pc = "returned" /\ rf_pc = "returned"
        /\ Len(rf_spot_calls) = Len(spot_calls)
        /\ \A k \in 1..Len(spot_calls) : rf_spot_calls[k] = spot_calls[k]
        /\ rf_dex_calls = dex_calls
        /\ TierOf(rf_spot_calls, rf_dex_calls) = TierOf(spot_calls, dex_calls)
        /\ TierOf(spot_calls, dex_calls) = "dex" =>
              rf_out = Ok(RatMul(fx_out.val, usdc_usd_rate))
        /\ TierOf(spot_calls, dex_calls) # "dex" => rf_out = fx_out

C13_Witness ==
    /\ rf_pc = "returned"
    /\ Len(spot_calls) = 2
    /\ TierOf(spot_calls, dex_calls) = "dex"
    /\ fx_out = Ok(RatInt(2))
    /\ usdc_usd_rate = RatInt(3)
    /\ rf_out = Ok(RatInt(6))

\* The address map holds an address for both the symbol and the reference.
HoldsBothAddresses ==
    /\ ~evm_addresses.none
    /\ symbol \in DOMAIN evm_addresses.map
    /\ evm_usd_reference \in DOMAIN evm_addresses.map

SpotExhausted ==
    /\ Len(spot_calls) = Len(preferred_quotes)
    /\ \A k \in 1..Len(spot_calls) :
          /\ spot_calls[k].base = symbol
          /\ spot_calls[k].quote = preferred_quotes[k]
          /\ ~spot_calls[k].out.ok

\* C14: get_pair_mid_from_dexscreener is called at most once per
\* resolution, only when get_spot_mid has been called and has failed for
\* every preferred quote in list order, only when the address map holds
\* both addresses, and with these two addresses; when the map is absent,
\* empty or lacks either address, no DEX call is made and the result after
\* spot exhaustion is 1.0.
C14_TierOrdering ==
    /\ Len(dex_calls) <= 1
    /\ dex_calls # <<>> =>
          /\ SpotExhausted
          /\ HoldsBothAddresses
          /\ dex_calls[1].a = evm_addresses.map[symbol]
          /\ dex_calls[1].b = evm_addresses.map[evm_usd_reference]
    /\ ~HoldsBothAddresses =>
          /\ dex_calls = <<>>
          /\ (fx_pc # "spot" /\ SpotExhausted) => (fx_pc = "returned" /\ fx_out = Ok(RatInt(1)))

C14_Witness ==
    /\ Len(preferred_quotes) = 2
    /\ SpotExhausted
    /\ HoldsBothAddresses
    /\ Len(dex_calls) = 1
    /\ dex_calls[1].out = Ok(RatInt(2))
    /\ fx_out = Ok(RatInt(2))

\* The l2Book request was answered: ob is the book that came back.
BookFetched == book_reqs # <<>> /\ sp_out # Raise("NetworkError")

\* C19: get_spot_mid fails with NoLiquidity whenever the bid side or the
\* ask side of the fetched book is empty, either one alone, and returns a
\* mid only when both sides are non-empty.
C19_NoLiquidity ==
    /\ (BookFetched /\ (BookBids(ob) = <<>> \/ BookAsks(ob) = <<>>)) =>
          /\ sp_pc = "raised"
          /\ sp_out = Raise("NoLiquidity")
    /\ sp_out = Raise("NoLiquidity") =>
          /\ BookFetched
          /\ (ob.levels = <<>> /\ ob.bids = <<>>) \/ (ob.levels_ask = <<>> /\ ob.asks = <<>>)
    /\ sp_pc = "returned" =>
          /\ BookFetched
          /\ sp_out.ok
          /\ BookBids(ob) # <<>>
          /\ BookAsks(ob) # <<>>

C19_Witness ==
    /\ BookFetched
    /\ Len(ob.bids) = 2
    /\ NumericPx(ob.bids[1])
    /\ ob.levels_ask = <<>> /\ ob.asks = <<>>
    /\ sp_out = Raise("NoLiquidity")

\* The name is on no entry of the token catalog.
Absent(tokens, name) == \A i \in 1..Len(tokens) : tokens[i].name # name

\* sm is the catalog this call fetched and no book request has followed.
CatalogInHand ==
    /\ meta_reqs = 1
    /\ sp_pc \in {"found", "raised"}
    /\ book_reqs = <<>>
    /\ sp_out # Raise("NetworkError")

\* C18: get_spot_mid fails with UnknownToken whenever base or quote is
\* absent from the token catalog fetched for this call, and then posts no
\* l2Book request; every call fetches the metadata itself, once, before any
\* l2Book request, and the asset it requests is that of the pair index found
\* in this call, never one of an earlier call.
C18_UnknownTokenFreshCatalog ==
    /\ (CatalogInHand /\ (Absent(sm.tokens, base) \/ Absent(sm.tokens, quote))) =>
          /\ sp_pc = "raised"
          /\ sp_out = Raise("UnknownToken")
    /\ sp_out = Raise("UnknownToken") => book_reqs = <<>>
    /\ sp_pc = "call" =>
          /\ meta_reqs = 0 /\ sm = NoMeta
          /\ pair_index = NoIndex /\ asset_id = NoIndex
          /\ book_reqs = <<>>
    /\ book_reqs # <<>> =>
          /\ meta_reqs = 1
          /\ pair_index # NoIndex
          /\ book_reqs = <<SPOT_ASSET_OFFSET + pair_index>>

C18_Witness ==
    /\ sp_prev = 5
    /\ CatalogInHand
    /\ ~Absent(sm.tokens, base)
    /\ Absent(sm.tokens, quote)
    /\ Len(sm.universe) = 2
    /\ sp_out = Raise("UnknownToken")

\* The record the result holds for a usable object.
RecordOf(o) ==
    [value |-> o.value.v, timestamp |-> o.timestamp, provider |-> DefaultProvider(o.provider)]

\* C20: when the batch reply holds usable records (a symbol and a numeric
\* value) among malformed ones, the endpoint's result holds exactly the
\* usable records, each under its upper-cased symbol, and no per-symbol
\* request is made.
C20_BatchSkipsMalformed ==
    (ep_resps # <<>> /\ UsableObjects(ep_resps[1]) # {}) =>
        /\ ep_pc = "returned"
        /\ Len(ep_reqs) = 1
        /\ ep_out.ok
        /\ DOMAIN ep_out.val = {Upper(o.symbol) : o \in UsableObjects(ep_resps[1])}
        /\ \A k \in DOMAIN ep_out.val :
              \E o \in UsableObjects(ep_resps[1]) :
                  Upper(o.symbol) = k /\ ep_out.val[k] = RecordOf(o)

\* The spot tier is over: the call has returned or the DEX has been asked.
SpotTierOver == fx_pc # "spot" \/ dex_calls # <<>> \/ ~ForHasNext(preferred_quotes, qi)

\* C24: called without preferred_quotes, resolve_stable_usd_factor makes
\* exactly one get_spot_mid call in its spot tier, for (symbol, "FEUSD").
C24_DefaultQuoteSingleCall ==
    preferred_quotes = DefaultPreferredQuotes =>
        /\ Len(spot_calls) <= 1
        /\ \A k \in 1..Len(spot_calls) :
              spot_calls[k].base = symbol /\ spot_calls[k].quote = "FEUSD"
        /\ SpotTierOver => Len(spot_calls) = 1

\* symbols is empty or holds only blank strings.
NothingRequested == \A i \in 1..Len(symbols) : Strip(symbols[i]) = ""

\* C23: fetch_redstone_prices never returns an empty mapping; for an empty
\* or all-blank symbol list it sends no HTTP request, every endpoint try
\* comes back empty, it goes through all `retries` attempts, each over all
\* endpoints and followed by its backoff sleep, and ends in ExhaustedRetries.
C23_NeverEmptyMapping ==
    /\ ft_pc = "returned" => (ft_out.ok /\ DOMAIN ft_out.val # {})
    /\ ft_pc = "loop" => FetchCanStep
    /\ NothingRequested =>
          /\ ~ft_http
          /\ ft_pc \in {"loop", "raised"}
          /\ \A k \in 1..Len(ep_calls) : ep_calls[k].out = EpOk(EmptyMap)
          /\ ft_pc = "raised" =>
                /\ ft_out = EpRaise("ExhaustedRetries")
                /\ attempt = retries
                /\ Len(ep_calls) = retries * Len(eps)
                /\ Len(sleeps) = retries
                /\ \A k \in 1..retries :
                      sleeps[k] = RatMul(retry_base_delay, RatInt(2 ^ (k - 1)))

C23_Witness ==
    /\ symbols = <<"  ">>
    /\ ft_pc = "raised"
    /\ retries = 2
    /\ eps = <<"e1", "e2">>
    /\ Len(ep_calls) = 4
    /\ sleeps = <<Rat(1, 2), RatInt(1)>>
    /\ ~ft_http

\* The upper-cased forms of the requested symbols.
RequestedSymbols == {Wanted(symbols)[i] : i \in 1..Len(Wanted(symbols))}

\* C22: every key of the mapping fetch_redstone_prices returns is the
\* upper-cased form of a requested symbol.
C22_OnlyRequestedSymbols ==
    ft_pc = "returned" => DOMAIN ft_out.val \subseteq RequestedSymbols

\* The batch reply is a 200 whose payload holds records that every shape can
\* carry (each with a symbol of its own), in whichever shape.
ShapedReply(r) ==
    /\ ~r.exc
    /\ r.status = 200
    /\ r.data.shape \in {"list", "dict", "text_list", "text_dict"}
    /\ KeysOk(r.data.items)

\* The symbol -> {value, timestamp, provider} mapping of these records.
MappingOf(objs) ==
    [k \in {Upper(o.symbol) : o \in objs} |->
        RecordOf(CHOOSE o \in objs : Upper(o.symbol) = k)]

\* C21: the batch result depends on the records of the reply and not on the
\* shape that carries them: as a list, as a mapping keyed by symbol, or as
\* either inside a JSON string, the same records give the same
\* symbol -> {value, timestamp, provider} mapping, provider "redstone"
\* where the record has none, and the same move to the per-symbol requests
\* when no record is usable.
C21_ShapeIndependence ==
    (ep_resps # <<>> /\ ShapedReply(ep_resps[1])) =>
        IF UsableObjects(ep_resps[1]) # {}
        THEN /\ ep_pc = "returned"
             /\ Len(ep_resps) = 1
             /\ ep_out = EpOk(MappingOf(UsableObjects(ep_resps[1])))
        ELSE Len(ep_resps) = 1 => ep_pc = "per"

C21_Witness ==
    /\ ep_pc = "returned"
    /\ Len(ep_resps) = 1
    /\ ep_resps[1].data.shape = "text_dict"
    /\ Len(ep_resps[1].data.items) = 2
    /\ ep_resps[1].data.items[2].symbol = "USDC"
    /\ DOMAIN ep_out.val = {"USDC"}
    /\ ep_out.val["USDC"].provider = "redstone"

====
